---- MODULE Spec2Model ----
(***************************************************************************)
(* tg2md.py: conversion of a Telegram export (result.json) into one        *)
(* Markdown file per post.  A Python str is a sequence of one-character    *)
(* strings; a Python int is an integer.                                    *)
(***************************************************************************)
EXTENDS Integers, Sequences, FiniteSets, TLC

VARIABLES
    pc,         \* position of main(): "start", "load", "setup", "loop", "done", "fault"
    json_file,  \* content of the file named by args.json: <<>> (no such file) or <<export>>
    args_alias, \* args.alias
    dirs,       \* directories of the file system
    files,      \* files of the file system: path -> content
    stdout,     \* lines printed so far
    data,       \* the loaded export
    alias,      \* list of channel aliases
    lastmonth,  \* last month label printed
    idx,        \* index in raw_posts of the next post of the loop
    exc,        \* the exception that ended the run, "" when none
    call,       \* the call of a formatting function under study
    ret         \* its return value, <<>> before it returns and <<value>> after

vars == <<pc, json_file, args_alias, dirs, files, stdout, data, alias,
          lastmonth, idx, exc, call, ret>>

walker_vars == <<pc, json_file, args_alias, dirs, files, stdout, data, alias,
                 lastmonth, idx, exc>>

----------------------------------------------------------------------------
(* Bounds of the model *)

MaxPosts == 3      \* longest export (number of elements of messages)
MaxId    == 3      \* message post ids are 1..MaxId
MaxItems == 2      \* longest rich-text sequence of a post
MaxTail  == 4      \* longest part of an href after the t.me prefix

----------------------------------------------------------------------------
(* Python str operations *)

NL == "\n"

(* The grave accent (backtick), which a TLA+ string cannot hold *)
BQ == "U+0060"

Whitespace == {" ", NL, "\t"}

RECURSIVE Concat(_)
Concat(ss) == IF ss = <<>> THEN <<>> ELSE Head(ss) \o Concat(Tail(ss))

RECURSIVE Repeat(_, _)
Repeat(s, n) == IF n <= 0 THEN <<>> ELSE s \o Repeat(s, n - 1)

Bool(b) == IF b THEN 1 ELSE 0

StartsWith(s, p) == Len(p) <= Len(s) /\ SubSeq(s, 1, Len(p)) = p

EndsWith(s, p) == Len(p) <= Len(s) /\ SubSeq(s, Len(s) - Len(p) + 1, Len(s)) = p

RECURSIVE LStrip(_)
LStrip(s) == IF s # <<>> /\ Head(s) \in Whitespace THEN LStrip(Tail(s)) ELSE s

RECURSIVE RStrip(_)
RStrip(s) ==
    IF s # <<>> /\ s[Len(s)] \in Whitespace THEN RStrip(SubSeq(s, 1, Len(s) - 1)) ELSE s

Strip(s) == RStrip(LStrip(s))

RECURSIVE Split(_, _)
Split(s, c) ==
    IF \A i \in 1..Len(s) : s[i] # c
    THEN <<s>>
    ELSE LET i == CHOOSE k \in 1..Len(s) : s[k] = c /\ \A j \in 1..(k - 1) : s[j] # c
         IN  <<SubSeq(s, 1, i - 1)>> \o Split(SubSeq(s, i + 1, Len(s)), c)

Count(s, x) == Cardinality({i \in 1..Len(s) : s[i] = x})

RECURSIVE Remove(_, _)
Remove(s, c) ==
    IF s = <<>> THEN <<>>
    ELSE (IF Head(s) = c THEN <<>> ELSE <<Head(s)>>) \o Remove(Tail(s), c)

RECURSIVE Replace(_, _, _)
Replace(s, c, d) ==
    IF s = <<>> THEN <<>>
    ELSE (IF Head(s) = c THEN d ELSE <<Head(s)>>) \o Replace(Tail(s), c, d)

Last(s) == s[Len(s)]

Digits == <<"0", "1", "2", "3", "4", "5", "6", "7", "8", "9">>

RECURSIVE IntStr(_)
IntStr(n) == IF n < 10 THEN <<Digits[n + 1]>> ELSE IntStr(n \div 10) \o <<Digits[(n % 10) + 1]>>

(* A Python value is an int [int |-> n], a str [str |-> s], a list            *)
(* [list |-> <<...>>], None, or a dict (a record of its keys).                *)
None == [none |-> TRUE]
IsInt(v) == DOMAIN v = {"int"}
IsStr(v) == DOMAIN v = {"str"}

(* str(v) *)
Str(v) ==
    IF IsInt(v) THEN IntStr(v.int)
    ELSE IF v = None THEN <<"N", "o", "n", "e">>
    ELSE v.str

(* `x in lst` for a str x and a list of JSON scalars: a str never equals an int *)
InList(x, lst) == \E i \in 1..Len(lst) : ~IsInt(lst[i]) /\ lst[i].str = x

----------------------------------------------------------------------------
(* String literals of the source *)

TME       == <<"h", "t", "t", "p", "s", ":", "/", "/", "t", ".", "m", "e">>
HTTPS     == <<"h", "t", "t", "p", "s", ":", "/", "/">>
FILE_MARK == <<"(", "F", "i", "l", "e", " ">>
STAR1     == <<"*">>
STAR2     == <<"*", "*">>
STAR3     == <<"*", "*", "*">>
TICK1     == <<BQ>>
TICK3     == <<BQ, BQ, BQ>>

----------------------------------------------------------------------------
(* The formatting functions *)

simplify_name(name) == SelectSeq(name, LAMBDA c : c \notin {NL, "\t"})

unlinked_name(name) ==
    IF name # <<>> THEN Remove(Remove(name, "["), "]") ELSE <<>>

print_default_post_header(post_title, post_date, post_author, post_tag) ==
    Concat(<< <<"-", "-", "-", NL>>,
              <<"t", "i", "t", "l", "e", ":", " ">>, post_title, <<NL>>,
              <<"d", "a", "t", "e", ":", " ">>, post_date, <<NL>>,
              <<"a", "u", "t", "h", "o", "r", ":", " ">>, post_author, <<NL>>,
              <<"t", "a", "g", "s", ":", " ">>, post_tag, <<NL>>,
              <<"-", "-", "-", NL>> >>)

(* parse_post_photo taking the first path segment, split('/')[0] *)
parse_post_photo_first(post) ==
    Concat(<< <<"!", "[", "i", "m", "a", "g", "e", "]", "(">>,
              Head(Split(post.photo, "/")), <<")", NL, NL>> >>)

parse_post_photo(post) ==
    Concat(<< <<"!", "[", "i", "m", "a", "g", "e", "]", "(">>,
              Last(Split(post.photo, "/")), <<")", NL, NL>> >>)

parse_post_media(post) ==
    IF StartsWith(post.file, FILE_MARK)
    THEN <<>>
    ELSE Concat(<< <<NL, "!", "[", "[">>, Last(Split(post.file, "/")), <<"]", "]">> >>)

text_format(string, fmt) ==
    LET body == IF fmt \in {STAR1, STAR2, STAR3, TICK1, TICK3}
                THEN Concat(<<fmt, Strip(string), fmt>>)
                ELSE IF fmt = TICK3
                THEN Concat(<<fmt, <<NL>>, Strip(string), <<NL>>, fmt>>)
                ELSE Concat(<< <<"<">>, fmt, <<">">>, Strip(string),
                               <<"<", "/">>, fmt, <<">">> >>)
    IN  body \o Repeat(<<NL>>, Count(Split(string, NL), <<>>) * Bool(EndsWith(string, <<NL>>)))

(* text_link_format without the test of line 117: any t.me link is a cross-reference *)
text_link_format_any_channel(text, link, als) ==
    LET internal == StartsWith(link, TME) /\ Len(Split(link, "/")) > 2
        txt      == Strip(text)
        body     == IF internal
                    THEN Concat(<< <<"[", "[">>, Last(Split(link, "/")), <<"|">>, txt,
                                   <<"]", "]">> >>)
                    ELSE Concat(<< <<"[">>, txt, <<"]", "(">>, link, <<")">> >>)
    IN  body \o Repeat(<<NL>>, Count(text, NL) * Bool(EndsWith(text, <<NL>>)))

text_link_format(text, link, als) ==
    LET segs     == Split(link, "/")
        internal == /\ StartsWith(link, TME) /\ Len(segs) > 2
                    /\ InList(segs[Len(segs) - 1], als)
        txt      == Strip(text)
        body     == IF internal
                    THEN Concat(<< <<"[", "[">>, Last(segs), <<"|">>, txt, <<"]", "]">> >>)
                    ELSE Concat(<< <<"[">>, txt, <<"]", "(">>, link, <<")">> >>)
    IN  body \o Repeat(<<NL>>, Count(text, NL) * Bool(EndsWith(text, <<NL>>)))

parse_text_object(obj, als) ==
    LET obj_type == obj.type
        obj_text == obj.text
    IN  CASE obj_type = "hashtag" -> [str |-> obj_text]
          [] obj_type = "text_link" -> [str |-> text_link_format(obj_text, obj.href, als)]
          [] obj_type = "link" ->
                LET segs == Split(obj_text, "/")
                IN  IF /\ StartsWith(obj_text, TME) /\ Len(segs) > 2
                       /\ InList(segs[Len(segs) - 1], als)
                    THEN [str |-> Concat(<< <<"[", "[">>, Last(segs), <<"]", "]">> >>)]
                    ELSE [str |-> obj_text]
          [] obj_type = "email" ->
                LET link == Strip(obj_text)
                    full == Repeat(HTTPS, Bool(obj_type = "link")
                                          * (1 - Bool(StartsWith(link, HTTPS)))) \o link
                IN  [str |-> Concat(<< <<"<">>, full, <<">">> >>)]
          [] obj_type = "phone" -> [str |-> obj_text]
          [] obj_type = "italic" -> [str |-> text_format(obj_text, STAR1)]
          [] obj_type = "bold" -> [str |-> text_format(obj_text, STAR2)]
          [] obj_type = "code" -> [str |-> text_format(obj_text, TICK1)]
          [] obj_type = "pre" -> [str |-> text_format(obj_text, TICK3)]
          [] obj_type = "underline" -> [str |-> text_format(obj_text, <<"u">>)]
          [] obj_type = "strikethrough" -> [str |-> text_format(obj_text, <<"s">>)]
          [] OTHER -> None

RECURSIVE parse_items(_, _)
parse_items(items, als) ==
    IF items = <<>> THEN <<>>
    ELSE (IF IsStr(Head(items))
          THEN Head(items).str
          ELSE Str(parse_text_object(Head(items), als)))
         \o parse_items(Tail(items), als)

parse_post_text(post, als) ==
    LET post_raw_text == post.text
    IN  IF IsStr(post_raw_text)
        THEN post_raw_text.str
        ELSE parse_items(post_raw_text.list, als)

parse_post_reply(post, als) ==
    Concat(<< STAR2, unlinked_name(post.from),
              <<" ", "[", "r", "e", "p", "l", "i", "e", "d", "]", "(">>, TME, <<"/">>,
              Str(Last(als)), <<"/">>, IntStr(post.id),
              <<")", " ", "t", "o", " ", "[", "[">>, IntStr(post.reply_to_message_id),
              <<"|", "p", "o", "s", "t", "]", "]">>, STAR2,
              <<NL, "!", "[", "[">>, IntStr(post.reply_to_message_id), <<"]", "]", NL>> >>)

(* post_header with alias[0] for alias[-1] *)
post_header_first_alias(post, als) ==
    Concat(<< STAR2, unlinked_name(post.from),
              <<" ", "[", "w", "r", "o", "t", "e", "]", "(">>, TME, <<"/">>,
              Str(Head(als)), <<"/">>, IntStr(post.id), <<")", ":">>, STAR2, <<NL>> >>)

post_header(post, als) ==
    Concat(<< STAR2, unlinked_name(post.from),
              <<" ", "[", "w", "r", "o", "t", "e", "]", "(">>, TME, <<"/">>,
              Str(Last(als)), <<"/">>, IntStr(post.id), <<")", ":">>, STAR2, <<NL>> >>)

parse_post(post, als) ==
    Concat(<< IF "reply_to_message_id" \in DOMAIN post
              THEN parse_post_reply(post, als)
              ELSE post_header(post, als),
              IF "photo" \in DOMAIN post THEN parse_post_photo(post) ELSE <<>>,
              parse_post_text(post, als),
              IF "file" \in DOMAIN post THEN parse_post_media(post) ELSE <<>> >>)

----------------------------------------------------------------------------
(* Inputs of the formatting functions *)

RECURSIVE SeqsUpTo(_, _)
SeqsUpTo(S, n) ==
    IF n = 0 THEN {<<>>}
    ELSE LET shorter == SeqsUpTo(S, n - 1)
         IN  shorter \cup {Append(s, x) : s \in shorter, x \in S}

Opt(S) == {<<>>} \cup {<<x>> : x \in S}

(* a dict with the key k when v = <<value>>, the empty dict when v = <<>> *)
Field(k, v) == IF v = <<>> THEN << >> ELSE k :> v[1]

AliasLists ==
    { << [int |-> 9] >>,
      << [int |-> 9], [str |-> <<"c">>] >>,
      << [str |-> <<"c">>] >>,
      << [int |-> 4], [str |-> <<"t", ".", "m", "e">>] >> }

Hrefs ==
    {TME \o t : t \in SeqsUpTo({"/", "c", "4"}, MaxTail)}
    \cup { <<>>, <<"c", "/", "4">>, <<"h", "t", "t", "p", ":", "/", "/", "c", "/", "4">>,
           <<"/">> \o TME \o <<"/", "c", "/", "4">> }

LinkTexts ==
    { <<"p">>, <<" ", "p">>, <<"p", " ">>, <<"p", " ", "q">>, <<>>, <<" ">>,
      <<"p", NL>>, <<NL, "p", NL, NL>> }

RunTypes ==
    { "hashtag", "text_link", "link", "email", "phone", "italic", "bold", "code", "pre",
      "underline", "strikethrough" }

OtherRunTypes == { "spoiler", "mention" }

RunTexts == { <<"c">>, <<"c", NL>>, <<" ", "c">>, TME \o <<"/", "c", "/", "4">> }

Runs ==
    { [type |-> t, text |-> x] : t \in (RunTypes \ {"text_link"}) \cup OtherRunTypes,
                                 x \in RunTexts }
    \cup { [type |-> "text_link", text |-> x, href |-> TME \o <<"/", "c", "/", "4">>] :
             x \in RunTexts }

Items == { [str |-> <<"a">>], [str |-> <<"b", NL>>] } \cup Runs

Texts ==
    { [str |-> <<"H", "i">>], [str |-> <<>>] }
    \cup { [list |-> l] : l \in SeqsUpTo(Items, MaxItems) }

PostTexts ==
    { [str |-> <<"H", "i">>],
      [list |-> << [str |-> <<"a">>], [type |-> "bold", text |-> <<"c">>] >>] }

RenderPosts ==
    { [id |-> i, from |-> f, text |-> t]
        @@ Field("reply_to_message_id", r) @@ Field("photo", p) @@ Field("file", m) :
      i \in 1..MaxId,
      f \in { <<"A">>, <<"[", "A", "]", " ", "B">>, <<>> },
      t \in PostTexts,
      r \in Opt(1..MaxId),
      p \in Opt({ <<>>, <<"a", ".", "j">>, <<"p", "/", "a", ".", "j">> }),
      m \in Opt({ FILE_MARK \o <<"x", ")">>, <<"f", "/", "b">> }) }

NoCall == [fn |-> "none"]

WalkerIdle ==
    /\ pc = "idle" /\ json_file = <<>> /\ args_alias = <<>> /\ dirs = {}
    /\ files = << >> /\ stdout = <<>> /\ data = << >> /\ alias = <<>>
    /\ lastmonth = <<>> /\ idx = 0 /\ exc = ""

----------------------------------------------------------------------------
(* SpecLink: calls of text_link_format *)

InitLink ==
    /\ WalkerIdle
    /\ call \in [fn : {"text_link_format"}, text : LinkTexts, link : Hrefs,
                  alias : AliasLists]
    /\ ret = <<>>

CallTextLinkFormat ==
    /\ call.fn = "text_link_format" /\ ret = <<>>
    /\ ret' = <<text_link_format(call.text, call.link, call.alias)>>
    /\ UNCHANGED <<walker_vars, call>>

NextLink == CallTextLinkFormat

SpecLink == InitLink /\ [][NextLink]_vars

----------------------------------------------------------------------------
(* SpecText: calls of parse_text_object and of parse_post_text *)

InitText ==
    /\ WalkerIdle
    /\ call \in [fn : {"parse_text_object"}, obj : Runs, alias : AliasLists]
              \cup [fn : {"parse_post_text"}, post : [text : Texts],
                     alias : { << [int |-> 9], [str |-> <<"c">>] >> }]
    /\ ret = <<>>

CallParseTextObject ==
    /\ call.fn = "parse_text_object" /\ ret = <<>>
    /\ ret' = <<parse_text_object(call.obj, call.alias)>>
    /\ UNCHANGED <<walker_vars, call>>

CallParsePostText ==
    /\ call.fn = "parse_post_text" /\ ret = <<>>
    /\ ret' = <<parse_post_text(call.post, call.alias)>>
    /\ UNCHANGED <<walker_vars, call>>

NextText == CallParseTextObject \/ CallParsePostText

SpecText == InitText /\ [][NextText]_vars

----------------------------------------------------------------------------
(* SpecPost: calls of parse_post *)

InitPost ==
    /\ WalkerIdle
    /\ call \in [fn : {"parse_post"}, post : RenderPosts, alias : AliasLists]
    /\ ret = <<>>

CallParsePost ==
    /\ call.fn = "parse_post" /\ ret = <<>>
    /\ ret' = <<parse_post(call.post, call.alias)>>
    /\ UNCHANGED <<walker_vars, call>>

NextPost == CallParsePost

SpecPost == InitPost /\ [][NextPost]_vars

----------------------------------------------------------------------------
(* Spec: a run of main() *)

Imports == {"os", "argparse", "json", "datetime"}

OutDir == <<"p", "o", "s", "t", "s">>

NoExc == [type |-> "none"]

(* os.path.join *)
PathJoin(parts) ==
    Concat([i \in 1..Len(parts) |-> IF i = 1 THEN parts[i] ELSE <<"/">> \o parts[i]])

(* `sub in s` for two str *)
Contains(s, sub) ==
    \E i \in 1..(Len(s) - Len(sub) + 1) : SubSeq(s, i, i + Len(sub) - 1) = sub

(* str(datetime.fromisoformat(s)) for s = YYYY-MM-DD or YYYY-MM-DDTHH:MM:SS *)
DateTimeStr(s) ==
    IF Len(s) = 10
    THEN s \o <<" ", "0", "0", ":", "0", "0", ":", "0", "0">>
    ELSE Replace(s, "T", <<" ">>)

D1 == <<"2", "0", "2", "2", "-", "0", "1", "-", "0", "5">>
D2 == <<"2", "0", "2", "2", "-", "0", "2", "-", "0", "7", "T",
        "0", "8", ":", "0", "9", ":", "1", "0">>

GoodPosts ==
    { [type |-> "message", id |-> i, date |-> d, from |-> <<"A", " ", "B">>,
       text |-> [str |-> <<"H", "i">>]] : i \in 1..MaxId, d \in {D1, D2} }

(* message posts that lack a field main() or parse_post() reads *)
BadPosts ==
    { [type |-> "message", id |-> 1, from |-> <<"A">>, text |-> [str |-> <<"H", "i">>]],
      [type |-> "message", id |-> 1, date |-> D1, text |-> [str |-> <<"H", "i">>]],
      [type |-> "message", id |-> 1, date |-> D1, from |-> <<"A">>] }

ServicePosts ==
    { [type |-> "service", id |-> MaxId + 1, date |-> D1, actor |-> <<"A">>,
       text |-> [str |-> <<>>]] }

WalkerPosts == GoodPosts \cup BadPosts \cup ServicePosts

CHANNEL == <<"c", "h", "a", "n", "n", "e", "l">>

ExportTypes ==
    { <<"p", "u", "b", "l", "i", "c", "_">> \o CHANNEL,
      <<"p", "r", "i", "v", "a", "t", "e", "_", "g", "r", "o", "u", "p">> }

Exports ==
    { [id |-> [int |-> 9], type |-> t, messages |-> m] :
      t \in ExportTypes, m \in SeqsUpTo(WalkerPosts, MaxPosts) }

Init ==
    /\ pc = "start"
    /\ json_file \in Opt(Exports)
    /\ args_alias \in { <<>>, <<"c">> }
    /\ dirs \in { {}, {OutDir} }
    /\ files = << >>
    /\ stdout = <<>>
    /\ data = None
    /\ alias = <<>>
    /\ lastmonth = <<>>
    /\ idx = 0
    /\ exc = NoExc
    /\ call = NoCall
    /\ ret = <<>>

(* os.mkdir(args.out_dir), FileExistsError ignored *)
MkOutDir ==
    /\ pc = "start"
    /\ dirs' = dirs \cup {OutDir}
    /\ pc' = "load"
    /\ UNCHANGED <<json_file, args_alias, files, stdout, data, alias, lastmonth, idx,
                   exc, call, ret>>

LoadJson ==
    /\ pc = "load" /\ json_file # <<>>
    /\ data' = json_file[1]
    /\ pc' = "setup"
    /\ UNCHANGED <<json_file, args_alias, dirs, files, stdout, alias, lastmonth, idx,
                   exc, call, ret>>

(* the handler of FileNotFoundError calls sys.exit(msg): the name sys is looked up *)
(* among the module's imports                                                     *)
LoadJsonNotFound ==
    /\ pc = "load" /\ json_file = <<>>
    /\ exc' = IF "sys" \in Imports
              THEN [type |-> "SystemExit",
                    msg  |-> "result.json not found.\nPlease, specify right file"]
              ELSE [type |-> "NameError", msg |-> "name 'sys' is not defined"]
    /\ pc' = "fault"
    /\ UNCHANGED <<json_file, args_alias, dirs, files, stdout, data, alias, lastmonth,
                   idx, call, ret>>

(* print('Processing', n, 'posts in', a) *)
ProcessingLine(n, a) ==
    Concat(<< <<"P", "r", "o", "c", "e", "s", "s", "i", "n", "g", " ">>, IntStr(n),
              <<" ", "p", "o", "s", "t", "s", " ", "i", "n", " ">>, Str(a) >>)

Setup ==
    /\ pc = "setup"
    /\ LET als == <<data.id>> \o (IF args_alias # <<>> THEN << [str |-> args_alias] >>
                                   ELSE <<>>)
           raw_posts == data.messages
       IN  /\ alias' = als
           /\ stdout' = Append(stdout, ProcessingLine(Len(raw_posts), Last(als)))
    /\ lastmonth' = <<>>
    /\ idx' = 1
    /\ pc' = "loop"
    /\ UNCHANGED <<json_file, args_alias, dirs, files, data, exc, call, ret>>

(* post_subpath cut at the year, [0:4] *)
post_subpath_year(date_str) == SubSeq(date_str, 1, 4)

post_subpath(date_str) == SubSeq(date_str, 1, 7)

(* post_filename without the post id *)
post_filename_fixed(post_id) == <<"p", "o", "s", "t", ".", "m", "d">>

post_filename(post_id) == IntStr(post_id) \o <<".", "m", "d">>

(* the month printed for every post *)
MonthChanged_always(subpath, last) == TRUE

MonthChanged(subpath, last) == subpath # last

post_nametag(post_author) ==
    IF Contains(data.type, CHANNEL)
    THEN <<>>
    ELSE Replace(simplify_name(unlinked_name(post_author)), " ", <<"_">>)

(* what print(print_default_post_header(...), file=f) writes *)
FrontMatter(post) ==
    print_default_post_header(IntStr(post.id), DateTimeStr(post.date),
                              unlinked_name(post.from),
                              post_nametag(unlinked_name(post.from))) \o <<NL>>

(* what the two print(..., file=f) write *)
Document(post, als) == FrontMatter(post) \o parse_post(post, als) \o <<NL>>

CurPost == data.messages[idx]

(* keys main() reads before it opens the file, in the order it reads them *)
HeadKeys == <<"date", "id", "from">>

MissingHeadKeys(post) == {i \in 1..Len(HeadKeys) : HeadKeys[i] \notin DOMAIN post}

InLoop == pc = "loop" /\ idx <= Len(data.messages)

SkipPost ==
    /\ InLoop /\ CurPost.type # "message"
    /\ idx' = idx + 1
    /\ UNCHANGED <<pc, json_file, args_alias, dirs, files, stdout, data, alias,
                   lastmonth, exc, call, ret>>

(* a missing key raises KeyError before the subfolder is made *)
PostKeyError ==
    /\ InLoop /\ CurPost.type = "message" /\ MissingHeadKeys(CurPost) # {}
    /\ LET first == CHOOSE i \in MissingHeadKeys(CurPost) :
                        \A j \in MissingHeadKeys(CurPost) : i <= j
       IN  exc' = [type |-> "KeyError", msg |-> HeadKeys[first]]
    /\ pc' = "fault"
    /\ UNCHANGED <<json_file, args_alias, dirs, files, stdout, data, alias, lastmonth,
                   idx, call, ret>>

MakeMonth(subpath) ==
    /\ dirs' = dirs \cup {PathJoin(<<OutDir, subpath>>)}
    /\ IF MonthChanged(subpath, lastmonth)
       THEN lastmonth' = subpath /\ stdout' = Append(stdout, subpath)
       ELSE UNCHANGED <<lastmonth, stdout>>

WritePost ==
    /\ InLoop /\ CurPost.type = "message" /\ MissingHeadKeys(CurPost) = {}
    /\ "text" \in DOMAIN CurPost
    /\ LET post_sub == post_subpath(DateTimeStr(CurPost.date))
           post_path == PathJoin(<<OutDir, post_sub, post_filename(CurPost.id)>>)
       IN  /\ MakeMonth(post_sub)
           /\ files' = (post_path :> Document(CurPost, alias)) @@ files
    /\ idx' = idx + 1
    /\ UNCHANGED <<pc, json_file, args_alias, data, alias, exc, call, ret>>

(* parse_post() raises KeyError on post['text'] after open(post_path, 'w') and the *)
(* first print: the file is left with the front matter alone                       *)
WritePostKeyError ==
    /\ InLoop /\ CurPost.type = "message" /\ MissingHeadKeys(CurPost) = {}
    /\ "text" \notin DOMAIN CurPost
    /\ LET post_sub == post_subpath(DateTimeStr(CurPost.date))
           post_path == PathJoin(<<OutDir, post_sub, post_filename(CurPost.id)>>)
       IN  /\ MakeMonth(post_sub)
           /\ files' = (post_path :> FrontMatter(CurPost)) @@ files
    /\ exc' = [type |-> "KeyError", msg |-> "text"]
    /\ pc' = "fault"
    /\ UNCHANGED <<json_file, args_alias, data, alias, idx, call, ret>>

Finish ==
    /\ pc = "loop" /\ idx > Len(data.messages)
    /\ pc' = "done"
    /\ UNCHANGED <<json_file, args_alias, dirs, files, stdout, data, alias, lastmonth,
                   idx, exc, call, ret>>

Next ==
    \/ MkOutDir \/ LoadJson \/ LoadJsonNotFound \/ Setup
    \/ SkipPost \/ PostKeyError \/ WritePost \/ WritePostKeyError \/ Finish

Spec == Init /\ [][Next]_vars

----------------------------------------------------------------------------
(* Properties of a run of main() *)

Loaded == pc \in {"loop", "done"} \/ (pc = "fault" /\ data # None)

MessageIdx == {i \in 1..Len(data.messages) : data.messages[i].type = "message"}

UniqueIds ==
    \A i, j \in 1..Len(data.messages) :
        i # j => data.messages[i].id # data.messages[j].id

(* YYYY-MM of a post, from its date as it stands in the export *)
MonthOf(post) == SubSeq(post.date, 1, 7)

MonthDirOf(post) == Concat(<<OutDir, <<"/">>, MonthOf(post)>>)

PathOf(post) ==
    Concat(<<OutDir, <<"/">>, MonthOf(post), <<"/">>, IntStr(post.id), <<".", "m", "d">> >>)

(* C1: after a complete run over an export with unique post ids, the files are   *)
(* exactly out_dir/YYYY-MM/id.md of the posts of type "message", and the          *)
(* subfolders exactly their months: other posts make no file and no subfolder.    *)
C1_FilesAreTheMessagePosts ==
    (pc = "done" /\ UniqueIds) =>
        /\ DOMAIN files = {PathOf(data.messages[i]) : i \in MessageIdx}
        /\ dirs \ {OutDir} = {MonthDirOf(data.messages[i]) : i \in MessageIdx}
        /\ Cardinality(DOMAIN files) = Cardinality(MessageIdx)

C1_Witness ==
    /\ pc = "done" /\ UniqueIds
    /\ Cardinality(MessageIdx) = 2 /\ Len(data.messages) = 3
    /\ Cardinality(dirs) = 3

(* the month labels of the message posts among the first n posts, in export order *)
RECURSIVE MonthsUpTo(_)
MonthsUpTo(n) ==
    IF n = 0 THEN <<>>
    ELSE MonthsUpTo(n - 1) \o (IF n \in MessageIdx THEN <<MonthOf(data.messages[n])>>
                               ELSE <<>>)

(* a sequence without the repetitions of earlier elements *)
RECURSIVE FirstSeen(_)
FirstSeen(s) ==
    IF s = <<>> THEN <<>>
    ELSE LET init == SubSeq(s, 1, Len(s) - 1)
         IN  FirstSeen(init) \o (IF \E i \in 1..Len(init) : init[i] = Last(s)
                                 THEN <<>> ELSE <<Last(s)>>)

(* a sequence without the elements equal to their predecessor *)
RECURSIVE Collapse(_)
Collapse(s) ==
    IF s = <<>> THEN <<>>
    ELSE LET init == SubSeq(s, 1, Len(s) - 1)
         IN  Collapse(init) \o (IF init # <<>> /\ Last(init) = Last(s)
                                THEN <<>> ELSE <<Last(s)>>)

(* equal elements are adjacent *)
Contiguous(s) ==
    \A i, j \in 1..Len(s) : (i < j /\ s[i] = s[j]) => \A k \in i..j : s[k] = s[i]

MonthLines == Tail(stdout)

Processed == IF pc = "done" THEN Len(data.messages) ELSE idx - 1

(* C2 as stated: each distinct year-month label is printed exactly once, in the   *)
(* order of first encounter, whether or not equal months are contiguous.          *)
C2_EachMonthOnce ==
    pc \in {"loop", "done"} => MonthLines = FirstSeen(MonthsUpTo(Processed))

(* C2 amended: a label is printed for each message post whose month differs from  *)
(* that of the message post before it; when equal months are contiguous in the    *)
(* export that is each distinct label once, in the order of first encounter.      *)
C2_MonthPrintedOnChange ==
    pc \in {"loop", "done"} =>
        /\ MonthLines = Collapse(MonthsUpTo(Processed))
        /\ Contiguous(MonthsUpTo(Processed)) =>
               MonthLines = FirstSeen(MonthsUpTo(Processed))

C2_Witness ==
    /\ pc = "done"
    /\ Len(MonthLines) = 3 /\ MonthLines[1] = MonthLines[3]
    /\ MonthLines[1] # MonthLines[2]

(* C3: the count printed at the start is the number of posts of type "message".   *)
C3_CountIsEligiblePosts ==
    Loaded => stdout[1] = ProcessingLine(Cardinality(MessageIdx), Last(alias))

(* C4: when the input file does not exist the run ends with the input-not-found   *)
(* exit carrying its message, with no other fault, and no post is processed.      *)
C4_InputNotFoundExit ==
    (pc = "fault" /\ json_file = <<>>) =>
        /\ exc = [type |-> "SystemExit",
                  msg  |-> "result.json not found.\nPlease, specify right file"]
        /\ files = << >> /\ stdout = <<>>

(* what C9 says of a run that a fault in the idx-th post ended *)
EarlierKeptLaterUntouched ==
    /\ \A i \in MessageIdx :
          i < idx => /\ PathOf(data.messages[i]) \in DOMAIN files
                     /\ files[PathOf(data.messages[i])] = Document(data.messages[i], alias)
    /\ \A f \in DOMAIN files :
          \E i \in MessageIdx : i <= idx /\ f = PathOf(data.messages[i])
    /\ \A d \in dirs \ {OutDir} :
          \E i \in MessageIdx : i <= idx /\ d = MonthDirOf(data.messages[i])

PostFault == pc = "fault" /\ exc.type = "KeyError"

(* C9 as stated: when the k-th message post raises a fault the run stops with the *)
(* file of every earlier post present, complete and unchanged, and with no file   *)
(* or subfolder of a later post.                                                  *)
C9_FaultKeepsEarlierFiles == PostFault => EarlierKeptLaterUntouched

(* C9 amended: the same, for an export whose post ids are unique.                 *)
C9_FaultKeepsEarlierFilesUniqueIds ==
    (PostFault /\ UniqueIds) => EarlierKeptLaterUntouched

C9_Witness ==
    /\ PostFault /\ UniqueIds /\ exc.msg = "text"
    /\ idx = 2 /\ Len(data.messages) = 3
    /\ MessageIdx = {1, 2, 3}
    /\ Cardinality(DOMAIN files) = 2

----------------------------------------------------------------------------
(* Properties of the formatting functions *)

Returned(fn) == call.fn = fn /\ ret # <<>>

SelfLink(href, als) ==
    LET segs == Split(href, "/")
    IN  /\ StartsWith(href, TME)
        /\ Len(segs) > 2
        /\ \E i \in 1..Len(als) : als[i] = [str |-> segs[Len(segs) - 1]]

CrossRef(target, display) == <<"[", "[">> \o target \o <<"|">> \o display \o <<"]", "]">>

ExternalLink(display, href) == <<"[">> \o display \o <<"]", "(">> \o href \o <<")">>

NoNewline(s) == \A i \in 1..Len(s) : s[i] # NL

(* C6 as stated: for a display text without newline the Link Resolver returns     *)
(* [[last segment of href|display text]] exactly when href starts with the base   *)
(* URL, has more than 2 segments and its second-to-last segment is an alias, and  *)
(* [display text](href) otherwise.                                                *)
C6_LinkResolver ==
    (Returned("text_link_format") /\ NoNewline(call.text)) =>
        ret[1] = IF SelfLink(call.link, call.alias)
                 THEN CrossRef(Last(Split(call.link, "/")), call.text)
                 ELSE ExternalLink(call.text, call.link)

(* C6 amended: the same, with the display text stripped of its leading and        *)
(* trailing whitespace in both forms.                                             *)
C6_LinkResolverStripped ==
    (Returned("text_link_format") /\ NoNewline(call.text)) =>
        ret[1] = IF SelfLink(call.link, call.alias)
                 THEN CrossRef(Last(Split(call.link, "/")), Strip(call.text))
                 ELSE ExternalLink(Strip(call.text), call.link)

C6_Witness ==
    /\ Returned("text_link_format")
    /\ call.text = <<" ", "p">>
    /\ call.link = TME \o <<"/", "c", "/", "4">>
    /\ ret[1] = <<"[", "[", "4", "|", "p", "]", "]">>

Recognized(item) == IsStr(item) \/ item.type \in RunTypes

(* C5: a run object of an unrecognized type adds nothing to the assembled text,   *)
(* which is the concatenation of what the other items give.                       *)
C5_UnknownRunDropped ==
    (Returned("parse_post_text") /\ ~IsStr(call.post.text)) =>
        ret[1] = parse_items(SelectSeq(call.post.text.list, Recognized), call.alias)

(* C7: a run of type "pre" gives a fenced block: the opening fence on a line of   *)
(* its own, the text, the closing fence on a line of its own; "c\n" gives the     *)
(* fence, a newline, c, a newline, the fence.                                     *)
C7_PreIsFencedBlock ==
    (Returned("parse_text_object") /\ call.obj.type = "pre") =>
        /\ ret[1] # None
        /\ StartsWith(ret[1].str, Concat(<<TICK3, <<NL>>, Strip(call.obj.text), <<NL>>,
                                           TICK3>>))
        /\ call.obj.text = <<"c", NL>> =>
               ret[1].str = Concat(<<TICK3, <<NL, "c", NL>>, TICK3>>)

Author(post) == SelectSeq(post.from, LAMBDA c : c \notin {"[", "]"})

(* the reply header up to the id of the parent *)
ReplyHeaderStart(post, a) ==
    Concat(<< <<"*", "*">>, Author(post), <<" ", "[", "r", "e", "p", "l", "i", "e", "d", "]",
              "(", "h", "t", "t", "p", "s", ":", "/", "/", "t", ".", "m", "e", "/">>,
              Str(a), <<"/">>, IntStr(post.id), <<")", " ", "t", "o", " ", "[", "[">> >>)

ReplyHeader(post, a) ==
    Concat(<< ReplyHeaderStart(post, a),
              IntStr(post.reply_to_message_id), <<"|", "p", "o", "s", "t", "]", "]", "*", "*",
              NL, "!", "[", "[">>, IntStr(post.reply_to_message_id), <<"]", "]", NL>> >>)

NormalHeader(post, a) ==
    Concat(<< <<"*", "*">>, Author(post), <<" ", "[", "w", "r", "o", "t", "e", "]",
              "(", "h", "t", "t", "p", "s", ":", "/", "/", "t", ".", "m", "e", "/">>,
              Str(a), <<"/">>, IntStr(post.id), <<")", ":", "*", "*", NL>> >>)

IsReply(post) == "reply_to_message_id" \in DOMAIN post

HeaderOf(post, als) ==
    IF IsReply(post) THEN ReplyHeader(post, Last(als)) ELSE NormalHeader(post, Last(als))

(* the body without its header *)
AfterHeader(out, post, als) == SubSeq(out, Len(HeaderOf(post, als)) + 1, Len(out))

HasHeaderMark(s) ==
    \/ Contains(s, <<"[", "w", "r", "o", "t", "e", "]", "(">>)
    \/ Contains(s, <<"[", "r", "e", "p", "l", "i", "e", "d", "]", "(">>)

(* C8: a body begins with exactly one header: the reply header when the post has  *)
(* reply_to_message_id, the normal header otherwise, never both and never none,   *)
(* built from the last alias and the post's own id.                               *)
C8_ExactlyOneHeader ==
    Returned("parse_post") =>
        LET post == call.post
            a    == Last(call.alias)
        IN  /\ StartsWith(ret[1], ReplyHeaderStart(post, a)) <=> IsReply(post)
            /\ IsReply(post) => StartsWith(ret[1], ReplyHeader(post, a))
            /\ StartsWith(ret[1], NormalHeader(post, a)) <=> ~IsReply(post)
            /\ ~HasHeaderMark(AfterHeader(ret[1], post, call.alias))

C8_Witness ==
    /\ Returned("parse_post")
    /\ IsReply(call.post) /\ Len(call.alias) = 2 /\ call.post.id = 2
    /\ StartsWith(ret[1], ReplyHeader(call.post, call.alias[2]))

ImageMark == <<"!", "[", "i", "m", "a", "g", "e", "]", "(">>

ImageBlock(photo) == ImageMark \o Last(Split(photo, "/")) \o <<")", NL, NL>>

(* C10 as stated: the image block, built from the last path segment of photo and  *)
(* followed by a blank line, is emitted after the header if and only if photo is  *)
(* present and non-empty.                                                         *)
C10_ImageIffPhotoNonEmpty ==
    Returned("parse_post") =>
        LET post == call.post
            rest == AfterHeader(ret[1], post, call.alias)
        IN  IF "photo" \in DOMAIN post /\ post.photo # <<>>
            THEN StartsWith(rest, ImageBlock(post.photo))
            ELSE ~StartsWith(rest, ImageMark)

(* C10 amended: the image block is emitted if and only if photo is present; an    *)
(* empty photo gives the block with an empty target.                              *)
C10_ImageIffPhotoPresent ==
    Returned("parse_post") =>
        LET post == call.post
            rest == AfterHeader(ret[1], post, call.alias)
        IN  IF "photo" \in DOMAIN post
            THEN StartsWith(rest, ImageBlock(post.photo))
            ELSE ~StartsWith(rest, ImageMark)

C10_Witness ==
    /\ Returned("parse_post")
    /\ "photo" \in DOMAIN call.post /\ call.post.photo = <<>>
    /\ StartsWith(AfterHeader(ret[1], call.post, call.alias),
                  <<"!", "[", "i", "m", "a", "g", "e", "]", "(", ")", NL, NL>>)

====
